---- MODULE Spec2Model ----
(***************************************************************************)
(* stack-status: the status composer (fetch_status, fetch_stack_status),   *)
(* the watch-mode refresh loop (run_watch_mode) and the pure functions     *)
(* they use (parse_gt_log_short, normalize_check, summarize_checks,        *)
(* StackStatus::all_complete).                                             *)
(*                                                                         *)
(* Option<T> is a sequence of length at most one: None is <<>>, Some(x)    *)
(* is <<x>>.  A string the code scans (a line of `gt log short`, a branch  *)
(* name) is a sequence of one-character strings.  The glyphs of the        *)
(* listing are written in ASCII:                                           *)
(*     "@" is U+25C9 (current branch)    "O" is U+25EF (other branch)      *)
(*     "|" "-" "!" "$" "%" "&" "*" "+" "=" "~" "^" stand for the eleven    *)
(*     box-drawing connectors of tree_chars, " " is the space; none of     *)
(*     them is a character of a branch name.                               *)
(***************************************************************************)
EXTENDS Integers, Sequences, FiniteSets, TLC

VARIABLES
    mode,       \* which entry point main dispatched to: "once", "watch", "mcp"
    json,       \* args.json
    has_gt,     \* graphite::is_installed()
    has_gh,     \* github::is_installed()
    interval,   \* args.interval, the period of the ticker
    pc,         \* position of the program
    lag,        \* time elapsed past the ticker's next deadline (negative: still to wait)
    cursor,     \* the terminal's cursor: "shown" or "hidden"
    restores,   \* number of calls of display::restore_terminal
    todo,       \* the descriptors `for branch in branches` has not reached yet
    status,     \* the StackStatus being composed, then the latest snapshot
    calls,      \* collaborator processes run by the current composition, in order
    result,     \* what the entry point returned: "none", "Ok", "Err"
    exit,       \* how the watch loop was left: "none", "UserQuit", "AllComplete"
    screen,     \* what the current cycle wrote to the terminal
    key,        \* what the cycle's display::check_keypress() returned
    keybuf,     \* the key the user pressed last, waiting in the terminal
    settled,    \* the CI has no outstanding work any more
    arg,        \* the argument of a function applied on its own (a unit test)
    ret         \* what it returned, None before it has

vars == <<mode, json, has_gt, has_gh, interval, pc, lag, cursor, restores, todo,
          status, calls, result, exit, screen, key, keybuf, settled, arg, ret>>

----------------------------------------------------------------------------
(* Bounds of the model *)

MaxInterval == 2
MaxLag == 1
MaxSnapBranches == 2

\* the longest check list summarize_checks is applied to
MaxChecks == 3

\* the most lines of a listing parse_gt_log_short is applied to
MaxLines == 2

----------------------------------------------------------------------------
(* Option<T> *)

None == <<>>

Some(x) == <<x>>

IsSome(o) == Len(o) = 1

Unwrap(o) == o[1]

----------------------------------------------------------------------------
(* Strings as sequences of characters *)

CUR == "@"

OTH == "O"

Whitespace == {" "}

tree_chars == {"|", "-", "!", "$", "%", "&", "*", "+", "=", "~", "^", " "}

trunk_names == { <<"m","a","i","n">>, <<"m","a","s","t","e","r">>,
                 <<"d","e","v","e","l","o","p">>, <<"t","r","u","n","k">> }

Contains(s, c) == \E i \in 1..Len(s) : s[i] = c

\* str::find(char): the index of the first occurrence, None when there is none
Find(s, c) ==
    IF Contains(s, c)
    THEN Some(CHOOSE i \in 1..Len(s) : s[i] = c /\ \A j \in 1..(i-1) : s[j] # c)
    ELSE None

RECURSIVE TrimStartMatches(_, _)
TrimStartMatches(s, set) ==
    IF s # <<>> /\ Head(s) \in set THEN TrimStartMatches(Tail(s), set) ELSE s

RECURSIVE TrimEndMatches(_, _)
TrimEndMatches(s, set) ==
    IF s # <<>> /\ s[Len(s)] \in set
    THEN TrimEndMatches(SubSeq(s, 1, Len(s) - 1), set)
    ELSE s

\* str::trim
Trim(s) == TrimEndMatches(TrimStartMatches(s, Whitespace), Whitespace)

----------------------------------------------------------------------------
(* graphite::parse_gt_log_short *)

BranchInfo(name, is_current, is_trunk) ==
    [name |-> name, is_current |-> is_current, is_trunk |-> is_trunk]

\* the position the name is cut at: line.find(CUR).or_else(|| line.find(OTH))
IndicatorPos(line) ==
    IF IsSome(Find(line, CUR)) THEN Find(line, CUR) ELSE Find(line, OTH)

\* mutant of ExtractName: the connectors after the indicator are kept
ExtractNameNoStrip(line, pos) == Trim(SubSeq(line, pos + 1, Len(line)))

\* the text after the indicator, connectors and whitespace stripped
ExtractName(line, pos) ==
    Trim(TrimStartMatches(SubSeq(line, pos + 1, Len(line)), tree_chars))

\* one iteration of `for line in output.lines()`: the descriptors it pushes
ParseLine(line) ==
    IF Trim(line) = <<>> THEN <<>>
    ELSE LET has_current == Contains(line, CUR)
             has_branch  == Contains(line, CUR) \/ Contains(line, OTH)
         IN  IF ~has_branch THEN <<>>
             ELSE LET pos == IndicatorPos(line)
                  IN  IF ~IsSome(pos) THEN <<>>
                      ELSE LET branch_name == ExtractName(line, Unwrap(pos))
                           IN  IF branch_name = <<>> THEN <<>>
                               ELSE << BranchInfo(branch_name, has_current,
                                                  branch_name \in trunk_names) >>

RECURSIVE parse_gt_log_short(_)
parse_gt_log_short(output) ==
    IF output = <<>> THEN <<>>
    ELSE ParseLine(Head(output)) \o parse_gt_log_short(Tail(output))

----------------------------------------------------------------------------
(* github::normalize_check and github::summarize_checks *)

CheckStatus == {"Passed", "Failed", "Running", "Queued", "Skipped", "Cancelled", "Unknown"}

\* RawCheck: bucket and state are Option<String>; started_at and completed_at are
\* Option of the instant the text parses to, a negative number when it does not parse
RawCheck(bucket, state, started_at, completed_at) ==
    [bucket |-> bucket, state |-> state,
     started_at |-> started_at, completed_at |-> completed_at]

\* chrono::DateTime::parse_from_rfc3339(s).ok()
ParseRfc3339(t) == IF t >= 0 THEN Some(t) ELSE None

Max(a, b) == IF a >= b THEN a ELSE b

normalize_check(raw) ==
    LET st == IF raw.bucket = Some("pass") THEN "Passed"
              ELSE IF raw.bucket = Some("fail") THEN "Failed"
              ELSE IF raw.bucket = Some("pending")
                   THEN (IF raw.state = Some("IN_PROGRESS") THEN "Running" ELSE "Queued")
              ELSE IF raw.bucket = Some("skipping") THEN "Skipped"
              ELSE IF raw.bucket = Some("cancel") THEN "Cancelled"
              ELSE "Unknown"
        duration_secs ==
              IF IsSome(raw.started_at) /\ IsSome(raw.completed_at)
              THEN LET s == ParseRfc3339(Unwrap(raw.started_at))
                       e == ParseRfc3339(Unwrap(raw.completed_at))
                   IN  IF IsSome(s) /\ IsSome(e)
                       THEN Some(Max(Unwrap(e) - Unwrap(s), 0))
                       ELSE None
              ELSE None
    IN  [status |-> st, duration_secs |-> duration_secs]

MapNormalize(raws) == [i \in 1..Len(raws) |-> normalize_check(raws[i])]

\* mutant of CountCheck: a cancelled check is counted as skipped
CountCheckCancelledAsSkipped(summary, check) ==
    CASE check.status = "Passed"    -> [summary EXCEPT !.passed = @ + 1]
      [] check.status = "Failed"    -> [summary EXCEPT !.failed = @ + 1]
      [] check.status = "Running"   -> [summary EXCEPT !.running = @ + 1]
      [] check.status = "Queued"    -> [summary EXCEPT !.queued = @ + 1]
      [] check.status = "Skipped"   -> [summary EXCEPT !.skipped = @ + 1]
      [] check.status = "Cancelled" -> [summary EXCEPT !.skipped = @ + 1]
      [] OTHER                      -> summary

\* one iteration of `for check in checks`
CountCheck(summary, check) ==
    CASE check.status = "Passed"    -> [summary EXCEPT !.passed = @ + 1]
      [] check.status = "Failed"    -> [summary EXCEPT !.failed = @ + 1]
      [] check.status = "Running"   -> [summary EXCEPT !.running = @ + 1]
      [] check.status = "Queued"    -> [summary EXCEPT !.queued = @ + 1]
      [] check.status = "Skipped"   -> [summary EXCEPT !.skipped = @ + 1]
      [] check.status = "Cancelled" -> [summary EXCEPT !.cancelled = @ + 1]
      [] OTHER                      -> summary

RECURSIVE CountChecks(_, _)
CountChecks(summary, checks) ==
    IF checks = <<>> THEN summary
    ELSE CountChecks(CountCheck(summary, Head(checks)), Tail(checks))

\* mutant of Overall: a passed check is looked for before a running one
OverallPassedFirst(summary) ==
    IF summary.failed > 0 THEN "Failed"
    ELSE IF summary.passed > 0 THEN "Passed"
    ELSE IF summary.running > 0 \/ summary.queued > 0 THEN "Running"
    ELSE "Unknown"

\* the `overall` expression of summarize_checks
Overall(summary) ==
    IF summary.failed > 0 THEN "Failed"
    ELSE IF summary.running > 0 \/ summary.queued > 0 THEN "Running"
    ELSE IF summary.passed > 0 THEN "Passed"
    ELSE "Unknown"

summarize_checks(checks) ==
    LET counted == CountChecks([total |-> Len(checks), passed |-> 0, failed |-> 0,
                                running |-> 0, queued |-> 0, skipped |-> 0,
                                cancelled |-> 0, overall |-> "Unknown"], checks)
    IN  [counted EXCEPT !.overall = Overall(counted)]

----------------------------------------------------------------------------
(* StackStatus, BranchStatus (main.rs) *)

\* StackStatus::new(): no branch, String::new() as the timestamp
NewStatus == [branches |-> <<>>, timestamp |-> None]

\* mutant of TrunkStatus: the PR of the trunk branch is kept
TrunkStatusWithPr(branch) ==
    [branch |-> branch.name, is_current |-> branch.is_current, is_trunk |-> TRUE,
     pr |-> Some(1), checks |-> None, summary |-> None]

\* the BranchStatus pushed for a trunk descriptor
TrunkStatus(branch) ==
    [branch |-> branch.name, is_current |-> branch.is_current, is_trunk |-> TRUE,
     pr |-> None, checks |-> None, summary |-> None]

\* checks.as_ref().map(|c| summarize_checks(c))
SummaryOf(checks) == IF IsSome(checks) THEN Some(summarize_checks(Unwrap(checks))) ELSE None

\* the BranchStatus pushed for a descriptor that is not trunk
NonTrunkStatus(branch, pr, checks) ==
    [branch |-> branch.name, is_current |-> branch.is_current, is_trunk |-> FALSE,
     pr |-> pr, checks |-> checks, summary |-> SummaryOf(checks)]

\* mutant of BranchComplete: a failed check keeps the branch incomplete
BranchCompleteNoFailure(b) ==
    b.is_trunk
    \/ (IF IsSome(b.summary)
        THEN Unwrap(b.summary).running = 0 /\ Unwrap(b.summary).queued = 0
             /\ Unwrap(b.summary).failed = 0
        ELSE TRUE)

\* mutant of BranchComplete: || for &&
BranchCompleteEither(b) ==
    b.is_trunk
    \/ (IF IsSome(b.summary)
        THEN Unwrap(b.summary).running = 0 \/ Unwrap(b.summary).queued = 0
        ELSE TRUE)

\* the closure of all_complete, for one branch
BranchComplete(b) ==
    b.is_trunk
    \/ (IF IsSome(b.summary)
        THEN Unwrap(b.summary).running = 0 /\ Unwrap(b.summary).queued = 0
        ELSE TRUE)

\* self.branches.iter().all(...)
RECURSIVE IterAll(_)
IterAll(bs) == IF bs = <<>> THEN TRUE ELSE BranchComplete(Head(bs)) /\ IterAll(Tail(bs))

all_complete(st) == IterAll(st.branches)

----------------------------------------------------------------------------
(* The collaborators: what the processes the program runs can answer *)

Ok(v) == [ok |-> TRUE, val |-> v]

Err == [ok |-> FALSE, val |-> <<>>]

Call(fn, idx, outcome) == [fn |-> fn, idx |-> idx, outcome |-> outcome]

\* `gt log short` listings
Listings ==
    { << <<"@"," ","f">>, <<"|">>, <<"O"," ","m","a","i","n">> >>,
      << <<"O"," ","g">>, <<"|"," ","@"," "," ","f">>, <<"O","-","!"," "," ","m","a","i","n">> >>,
      << <<"@"," ","m","a","i","n">> >>,
      << <<" ">>, <<"|">> >>,
      << >> }

\* `git rev-parse --abbrev-ref HEAD`, trimmed
CurrentNames == { <<"f">>, <<"m","a","i","n">> }

rPass == RawCheck(Some("pass"), Some("SUCCESS"), Some(1), Some(3))

rFail == RawCheck(Some("fail"), Some("FAILURE"), Some(3), Some(1))

rRun == RawCheck(Some("pending"), Some("IN_PROGRESS"), Some(1), None)

rQueued == RawCheck(Some("pending"), Some("QUEUED"), None, None)

rSkip == RawCheck(Some("skipping"), Some("SKIPPED"), None, None)

rCancel == RawCheck(Some("cancel"), Some("CANCELLED"), Some(-1), Some(2))

rOdd == RawCheck(None, None, None, Some(2))

\* `gh pr checks --json ...` outputs that parse
RawSamples ==
    { <<>>, <<rFail, rPass>>, <<rRun, rQueued>>, <<rQueued>>, <<rSkip, rCancel, rOdd>> }

Pending(raws) == \E i \in 1..Len(raws) : raws[i].bucket = Some("pending")

\* what `gh pr checks` can do: not start, exit unsuccessfully, print what does not
\* parse, or print a list of checks; once the CI has settled nothing is pending
CheckOutcomes(isSettled) ==
    { [kind |-> k, raws |-> <<>>] : k \in {"spawn_err", "exit_fail", "bad_json"} }
    \cup { [kind |-> "ok", raws |-> r] : r \in {x \in RawSamples : isSettled => ~Pending(x)} }

CheckFailures == {"spawn_err", "exit_fail", "bad_json"}

\* github::get_pr_for_branch: every failure is None
PrResults == {None, Some(1)}

\* github::get_checks, given what the process did
get_checks(outcome) ==
    IF outcome.kind = "spawn_err" THEN Err
    ELSE IF outcome.kind = "exit_fail" THEN Ok(<<>>)
    ELSE IF outcome.kind = "bad_json" THEN Ok(MapNormalize(<<>>))
    ELSE Ok(MapNormalize(outcome.raws))

\* graphite::get_current_branch, given what `git` did; the value is the pair of the
\* result and the processes run
get_current_branch(gitOutcome) ==
    IF gitOutcome.kind = "spawn_err"
    THEN [res |-> Err, log |-> << Call("git", 0, "spawn_err") >>]
    ELSE [res |-> Ok(gitOutcome.name), log |-> << Call("git", 0, "ok") >>]

GitOutcomes ==
    { [kind |-> "spawn_err", name |-> <<>>] }
    \cup { [kind |-> "ok", name |-> n] : n \in CurrentNames }

\* the single descriptor the code falls back to
Fallback(current) == << BranchInfo(current, TRUE, FALSE) >>

GtOutcomes ==
    { [kind |-> k, stdout |-> <<>>] : k \in {"spawn_err", "exit_fail"} }
    \cup { [kind |-> "ok", stdout |-> l] : l \in Listings }

\* graphite::get_stack, given what `gt log short` and `git` did
get_stack(gtOutcome, gitOutcome) ==
    IF gtOutcome.kind = "spawn_err"
    THEN [res |-> Err, log |-> << Call("gt", 0, "spawn_err") >>]
    ELSE IF gtOutcome.kind = "exit_fail"
    THEN LET cur == get_current_branch(gitOutcome)
         IN  [res |-> IF cur.res.ok THEN Ok(Fallback(cur.res.val)) ELSE Err,
              log |-> << Call("gt", 0, "exit_fail") >> \o cur.log]
    ELSE [res |-> Ok(parse_gt_log_short(gtOutcome.stdout)),
          log |-> << Call("gt", 0, "ok") >>]

\* `let branches = if has_gt { get_stack()? } else { fallback }`
Topology(gt, gtOutcome, gitOutcome) ==
    IF gt THEN get_stack(gtOutcome, gitOutcome)
    ELSE LET cur == get_current_branch(gitOutcome)
         IN  [res |-> IF cur.res.ok THEN Ok(Fallback(cur.res.val)) ELSE Err,
              log |-> cur.log]

----------------------------------------------------------------------------
(* The program *)

\* nothing written yet; snap is the snapshot handed to the renderer
Blank == [cleared |-> FALSE, shown |-> "none", snap |-> NewStatus, help |-> FALSE,
          notice |-> FALSE]

\* the keys a terminal can deliver
Keys == {"q", "r", "d"}

\* the positions of run_watch_mode between the creation of the ticker and its return
LoopPcs == {"setup", "tick", "fetch", "branch", "render", "poll", "complete_check", "restore"}

\* mutant of Propagate: the watch loop skips the failed cycle and goes on
PropagateSkipCycle(m) == IF m = "watch" THEN "tick" ELSE "returned"

\* where an entry point goes when fetch_status(...).await? or fetch_stack_status()
\* .await.map_err(...)? meets an Err: it returns it
Propagate(m) == "returned"

\* the state after parsing the arguments and probing for gt and gh (main), the
\* ticker of watch mode created: its first tick completes immediately
InitFor(modes) ==
    /\ mode \in modes
    /\ json \in (IF mode = "mcp" THEN {TRUE} ELSE BOOLEAN)
    /\ has_gt \in BOOLEAN
    /\ has_gh \in BOOLEAN
    /\ interval \in (IF mode = "watch" THEN 1..MaxInterval ELSE {1})
    /\ pc = IF mode = "watch" THEN "setup" ELSE "fetch"
    /\ lag = 0
    /\ cursor = "shown"
    /\ restores = 0
    /\ todo = <<>>
    /\ status = NewStatus
    /\ calls = <<>>
    /\ result = "none"
    /\ exit = "none"
    /\ screen = Blank
    /\ key = None
    /\ keybuf = None
    /\ settled \in BOOLEAN
    /\ arg = <<>>
    /\ ret = None

Init == InitFor({"once", "watch", "mcp"})

\* display::setup_terminal
SetupTerminal ==
    /\ pc = "setup"
    /\ cursor' = "hidden"
    /\ pc' = "tick"
    /\ UNCHANGED <<arg, ret, mode, json, has_gt, has_gh, interval, lag, restores, todo, status,
                   calls, result, exit, screen, key, keybuf, settled>>

\* ticker.tick().await: completes once the deadline is reached; the next deadline is
\* one period after this one
Tick ==
    /\ pc = "tick"
    /\ lag >= 0
    /\ lag' = lag - interval
    /\ screen' = Blank
    /\ pc' = "fetch"
    /\ UNCHANGED <<arg, ret, mode, json, has_gt, has_gh, interval, cursor, restores, todo, status,
                   calls, result, exit, key, keybuf, settled>>

\* the moment chrono::Local::now() reads: the number of collaborator processes the
\* composition has run so far
Moment(log) == Len(log)

\* the status a composition starts from: fetch_status leaves the timestamp empty,
\* fetch_stack_status reads the clock here
StartStatus(m) ==
    IF m = "mcp" THEN [NewStatus EXCEPT !.timestamp = Some(Moment(<<>>))] ELSE NewStatus

\* the beginning of fetch_status / fetch_stack_status, down to `for branch in branches`
FetchTopology ==
    /\ pc = "fetch"
    /\ \E gtOutcome \in GtOutcomes, gitOutcome \in GitOutcomes :
         LET t == Topology(has_gt, gtOutcome, gitOutcome)
         IN  /\ calls' = t.log
             /\ status' = StartStatus(mode)
             /\ IF t.res.ok
                THEN /\ todo' = t.res.val
                     /\ pc' = "branch"
                     /\ result' = result
                ELSE /\ todo' = <<>>
                     /\ pc' = Propagate(mode)
                     /\ result' = "Err"
    /\ UNCHANGED <<arg, ret, mode, json, has_gt, has_gh, interval, lag, cursor, restores, exit,
                   screen, key, keybuf, settled>>

\* mutant of ShouldFetchChecks: the checks are fetched whatever the PR lookup said
ShouldFetchAlways(pr) == TRUE

\* `if pr.is_some()`: whether the checks of the branch are fetched
ShouldFetchChecks(pr) == IsSome(pr)

\* mutant of Push: the new BranchStatus is put in front
PushFront(st, b) == [st EXCEPT !.branches = <<b>> \o @]

\* status.branches.push(...)
Push(st, b) == [st EXCEPT !.branches = Append(@, b)]

\* one iteration of `for branch in branches`
ProcessBranch ==
    /\ pc = "branch"
    /\ todo # <<>>
    /\ LET branch == Head(todo)
           idx    == Len(status.branches) + 1
       IN  IF branch.is_trunk
           THEN /\ status' = Push(status, TrunkStatus(branch))
                /\ todo' = Tail(todo)
                /\ UNCHANGED <<calls, pc, result>>
           ELSE IF has_gh
           THEN \E pr \in PrResults :
                  LET prCall == Call("get_pr_for_branch", idx,
                                     IF IsSome(pr) THEN "some" ELSE "none")
                  IN  IF ShouldFetchChecks(pr)
                      THEN \E outcome \in CheckOutcomes(settled) :
                             LET r == get_checks(outcome)
                             IN  /\ calls' = calls \o << prCall,
                                                Call("get_checks", idx, outcome.kind) >>
                                 /\ IF r.ok
                                    THEN /\ status' = Push(status,
                                                NonTrunkStatus(branch, pr, Some(r.val)))
                                         /\ todo' = Tail(todo)
                                         /\ UNCHANGED <<pc, result>>
                                    ELSE /\ pc' = Propagate(mode)
                                         /\ result' = "Err"
                                         /\ UNCHANGED <<status, todo>>
                      ELSE /\ calls' = calls \o << prCall >>
                           /\ status' = Push(status, NonTrunkStatus(branch, pr, None))
                           /\ todo' = Tail(todo)
                           /\ UNCHANGED <<pc, result>>
           ELSE /\ status' = Push(status, NonTrunkStatus(branch, None, None))
                /\ todo' = Tail(todo)
                /\ UNCHANGED <<calls, pc, result>>
    /\ UNCHANGED <<arg, ret, mode, json, has_gt, has_gh, interval, lag, cursor, restores, exit,
                   screen, key, keybuf, settled>>

\* the status fetch_status / fetch_stack_status returns once the loop is over
FinalStatus(m, st, log) ==
    IF m = "mcp" THEN st ELSE [st EXCEPT !.timestamp = Some(Moment(log))]

\* the end of the `for` loop: the snapshot is returned to the caller
FinishFetch ==
    /\ pc = "branch"
    /\ todo = <<>>
    /\ status' = FinalStatus(mode, status, calls)
    /\ pc' = CASE mode = "once" -> "print" [] mode = "watch" -> "render" [] OTHER -> "reply"
    /\ UNCHANGED <<arg, ret, mode, json, has_gt, has_gh, interval, lag, cursor, restores, todo,
                   calls, result, exit, screen, key, keybuf, settled>>

\* run_once after fetch_status: print the snapshot and return
RunOncePrint ==
    /\ pc = "print"
    /\ screen' = [screen EXCEPT !.shown = IF json THEN "json" ELSE "render",
                                 !.snap = status]
    /\ result' = "Ok"
    /\ pc' = "returned"
    /\ UNCHANGED <<arg, ret, mode, json, has_gt, has_gh, interval, lag, cursor, restores, todo,
                   status, calls, exit, key, keybuf, settled>>

\* get_stack_status after fetch_stack_status: the snapshot is the tool's result
McpReply ==
    /\ pc = "reply"
    /\ result' = "Ok"
    /\ pc' = "returned"
    /\ UNCHANGED <<arg, ret, mode, json, has_gt, has_gh, interval, lag, cursor, restores, todo,
                   status, calls, exit, screen, key, keybuf, settled>>

\* clear_screen, then the snapshot as JSON or render and render_help_bar
Render ==
    /\ pc = "render"
    /\ screen' = [cleared |-> TRUE, shown |-> IF json THEN "json" ELSE "render",
                  snap |-> status, help |-> ~json, notice |-> FALSE]
    /\ pc' = "poll"
    /\ UNCHANGED <<arg, ret, mode, json, has_gt, has_gh, interval, lag, cursor, restores, todo,
                   status, calls, result, exit, key, keybuf, settled>>

\* display::check_keypress
check_keypress == None

\* mutant of AfterKey: the refresh key renders the snapshot again
AfterKeyRerender(k) ==
    IF k = Some("q") THEN [pc |-> "restore", exit |-> "UserQuit"]
    ELSE IF k = Some("r") THEN [pc |-> "render", exit |-> "none"]
    ELSE [pc |-> "complete_check", exit |-> "none"]

\* mutant of AfterKey: every key but the quit key starts the next cycle
AfterKeyAnyContinues(k) ==
    IF k = Some("q") THEN [pc |-> "restore", exit |-> "UserQuit"]
    ELSE IF IsSome(k) THEN [pc |-> "tick", exit |-> "none"]
    ELSE [pc |-> "complete_check", exit |-> "none"]

\* `match key`: where the loop goes and how it is left
AfterKey(k) ==
    IF k = Some("q") THEN [pc |-> "restore", exit |-> "UserQuit"]
    ELSE IF k = Some("r") THEN [pc |-> "tick", exit |-> "none"]
    ELSE [pc |-> "complete_check", exit |-> "none"]

\* `if let Some(key) = display::check_keypress() { match key ... }`, the poll
\* answering k
PollStep(k) ==
    /\ pc = "poll"
    /\ key' = k
    /\ pc' = AfterKey(k).pc
    /\ exit' = AfterKey(k).exit
    /\ UNCHANGED <<arg, ret, mode, json, has_gt, has_gh, interval, lag, cursor, restores, todo,
                   status, calls, result, screen, keybuf, settled>>

PollKeypress == PollStep(check_keypress)

\* the same statement for every value of check_keypress's return type
PollKeypressAny == \E k \in {None} \cup { Some(c) : c \in Keys } : PollStep(k)

\* `if status.all_complete() { render_complete_message(); break; }`
CheckComplete ==
    /\ pc = "complete_check"
    /\ IF all_complete(status)
       THEN /\ screen' = [screen EXCEPT !.notice = TRUE]
            /\ exit' = "AllComplete"
            /\ pc' = "restore"
       ELSE /\ pc' = "tick"
            /\ UNCHANGED <<screen, exit>>
    /\ UNCHANGED <<arg, ret, mode, json, has_gt, has_gh, interval, lag, cursor, restores, todo,
                   status, calls, result, key, keybuf, settled>>

\* display::restore_terminal()?; Ok(())
RestoreTerminal ==
    /\ pc = "restore"
    /\ cursor' = "shown"
    /\ restores' = restores + 1
    /\ result' = "Ok"
    /\ pc' = "returned"
    /\ UNCHANGED <<arg, ret, mode, json, has_gt, has_gh, interval, lag, todo, status, calls,
                   exit, screen, key, keybuf, settled>>

----------------------------------------------------------------------------
(* The environment of watch mode *)

\* time passes
Advance ==
    /\ mode = "watch"
    /\ pc \in LoopPcs
    /\ lag < MaxLag
    /\ lag' = lag + 1
    /\ UNCHANGED <<arg, ret, mode, json, has_gt, has_gh, interval, pc, cursor, restores, todo,
                   status, calls, result, exit, screen, key, keybuf, settled>>

\* the user presses a key
Press ==
    /\ mode = "watch"
    /\ pc \in LoopPcs
    /\ \E c \in Keys : keybuf # Some(c) /\ keybuf' = Some(c)
    /\ UNCHANGED <<arg, ret, mode, json, has_gt, has_gh, interval, pc, lag, cursor, restores,
                   todo, status, calls, result, exit, screen, key, settled>>

\* the last outstanding check of the CI finishes
Settle ==
    /\ mode = "watch"
    /\ pc \in LoopPcs
    /\ ~settled
    /\ settled' = TRUE
    /\ UNCHANGED <<arg, ret, mode, json, has_gt, has_gh, interval, pc, lag, cursor, restores,
                   todo, status, calls, result, exit, screen, key, keybuf>>

----------------------------------------------------------------------------
(* Specifications *)

Compose == FetchTopology \/ ProcessBranch \/ FinishFetch

WatchLoop == SetupTerminal \/ Tick \/ Render \/ CheckComplete \/ RestoreTerminal

\* the program as built
Next ==
    \/ Compose
    \/ RunOncePrint
    \/ McpReply
    \/ WatchLoop
    \/ PollKeypress
    \/ Advance
    \/ Press
    \/ Settle

Spec == Init /\ [][Next]_vars

\* run_watch_mode alone
NextWatch ==
    \/ Compose
    \/ WatchLoop
    \/ PollKeypress
    \/ Advance
    \/ Press
    \/ Settle

\* run_watch_mode as built, its steps taken whenever they can be and time passing
LiveSpec ==
    /\ InitFor({"watch"})
    /\ [][NextWatch]_vars
    /\ WF_vars(Compose \/ WatchLoop \/ PollKeypress)
    /\ WF_vars(Advance)

\* run_watch_mode over every value check_keypress's return type has
NextKeys ==
    \/ Compose
    \/ WatchLoop
    \/ PollKeypressAny
    \/ Advance
    \/ Settle

SpecKeys == InitFor({"watch"}) /\ [][NextKeys]_vars

\* a function called on its own with one argument, as a unit test does: nothing of
\* the program has run
InitApply(fn, inputs) ==
    /\ mode = "test"
    /\ json = FALSE
    /\ has_gt = FALSE
    /\ has_gh = FALSE
    /\ interval = 1
    /\ pc = fn
    /\ lag = 0
    /\ cursor = "shown"
    /\ restores = 0
    /\ todo = <<>>
    /\ status = NewStatus
    /\ calls = <<>>
    /\ result = "none"
    /\ exit = "none"
    /\ screen = Blank
    /\ key = None
    /\ keybuf = None
    /\ settled = FALSE
    /\ arg \in inputs
    /\ ret = None

SeqUpTo(S, n) == UNION { [1..k -> S] : k \in 0..n }

\* the BranchStatus values a composition can push
SampleBranches ==
    { TrunkStatus(BranchInfo(<<"m","a","i","n">>, FALSE, TRUE)),
      NonTrunkStatus(BranchInfo(<<"f">>, TRUE, FALSE), None, None) }
    \cup { NonTrunkStatus(BranchInfo(<<"f">>, TRUE, FALSE), Some(1), Some(MapNormalize(r))) :
             r \in RawSamples \cup { <<rPass>>, <<rRun>> } }

\* a cycle of the watch loop about to evaluate all_complete on a rendered snapshot
InitAllComplete ==
    /\ mode = "watch"
    /\ json = FALSE
    /\ has_gt = TRUE
    /\ has_gh = TRUE
    /\ interval = 1
    /\ pc = "complete_check"
    /\ lag = -1
    /\ cursor = "hidden"
    /\ restores = 0
    /\ todo = <<>>
    /\ \E bs \in SeqUpTo(SampleBranches, MaxSnapBranches) :
         /\ status = [branches |-> bs, timestamp |-> Some(Len(bs))]
         /\ screen = [cleared |-> TRUE, shown |-> "render", snap |-> status,
                      help |-> TRUE, notice |-> FALSE]
    /\ calls = <<>>
    /\ result = "none"
    /\ exit = "none"
    /\ key = None
    /\ keybuf = None
    /\ settled = FALSE
    /\ arg = <<>>
    /\ ret = None

SpecAllComplete == InitAllComplete /\ [][CheckComplete \/ RestoreTerminal]_vars

\* what a line of `gt log short` has before its glyph
LinePrefixes == { <<>>, <<"|", " ">> }

\* what it has between the glyph and the name
LineGaps == { <<" ">>, <<"-", "!", " ", " ">> }

\* the rest of the line: a name, trailing whitespace
LineNames == { <<"f">>, <<"m","a","i","n">>, <<"M","a","i","n">>, <<"m","a","i","n"," ">> }

\* lines with one glyph and a name
NamedLines ==
    { pre \o <<g>> \o gap \o name :
        pre \in LinePrefixes, g \in {CUR, OTH}, gap \in LineGaps, name \in LineNames }
    \cup { <<OTH, " ">> \o name :
             name \in { <<"m","a","s","t","e","r">>, <<"d","e","v","e","l","o","p">>,
                        <<"t","r","u","n","k">>, <<"g">> } }

\* lines without a branch: empty, blank, connectors only, a glyph without a name,
\* text without a glyph
OtherLines == { <<>>, <<" ">>, <<"|">>, <<"|", " ", OTH, "-", "!">>, <<"|", " ", "f">> }

\* lines with more after the name, and lines with two glyphs
OddLines ==
    { <<OTH, " ", "f", " ", "|">>,
      <<OTH, " ", CUR, " ", "f">>, <<CUR, " ", OTH, " ", "f">>,
      <<OTH, " ", "f", " ", CUR>>, <<OTH, " ", OTH, " ", "f">>,
      <<"|", " ", OTH, "-", CUR, " ", "m","a","i","n">> }

ParseLines == NamedLines \cup OtherLines \cup OddLines

\* the listing of the test of parse_gt_log_short, and a shorter one
ExampleListings ==
    { << <<>>, <<CUR, " ", "h">>, <<"|">>, <<OTH, " ", "g">>, <<"|">>, <<OTH, " ", "f">>,
         <<"|">>, <<OTH, " ", "m","a","i","n">> >>,
      << <<CUR, " ", "g">>, <<"|">>, <<OTH, " ", "f">>, <<"|">>, <<OTH, " ", "m","a","i","n">> >> }

ParseInputs == SeqUpTo(ParseLines, MaxLines) \cup ExampleListings

\* parse_gt_log_short(output), output split into its lines
ApplyParse ==
    /\ pc = "parse_gt_log_short"
    /\ ret = None
    /\ ret' = Some(parse_gt_log_short(arg))
    /\ UNCHANGED <<arg, mode, json, has_gt, has_gh, interval, pc, lag, cursor, restores, todo,
                   status, calls, result, exit, screen, key, keybuf, settled>>

\* parse_gt_log_short on every listing of up to MaxLines lines and on the examples
SpecParse == InitApply("parse_gt_log_short", ParseInputs) /\ [][ApplyParse]_vars

\* the Check values normalize_check can produce, as far as summarize_checks reads them
Checks == { [status |-> s, duration_secs |-> d] : s \in CheckStatus, d \in {None, Some(2)} }

CheckLists == SeqUpTo(Checks, MaxChecks)

\* summarize_checks(&checks)
ApplySummarize ==
    /\ pc = "summarize_checks"
    /\ ret = None
    /\ ret' = Some(summarize_checks(arg))
    /\ UNCHANGED <<arg, mode, json, has_gt, has_gh, interval, pc, lag, cursor, restores, todo,
                   status, calls, result, exit, screen, key, keybuf, settled>>

\* summarize_checks on every list of up to MaxChecks checks
SpecSummarize == InitApply("summarize_checks", CheckLists) /\ [][ApplySummarize]_vars

----------------------------------------------------------------------------
(* Properties *)

\* every branch is trunk, or has no summary, or has nothing running and nothing queued
SnapshotComplete(st) ==
    \A i \in DOMAIN st.branches :
        \/ st.branches[i].is_trunk
        \/ st.branches[i].summary = None
        \/ /\ st.branches[i].summary[1].running = 0
           /\ st.branches[i].summary[1].queued = 0

\* C1: however run_watch_mode returns after setup_terminal, restore_terminal has run
\* exactly once and the cursor is shown again.
C1_RestoredOnEveryExit ==
    (mode = "watch" /\ pc = "returned") => (restores = 1 /\ cursor = "shown")

\* C2: a check provider that cannot be run, exits unsuccessfully or prints what does
\* not parse aborts the composition with an error, and no BranchStatus is built
\* from it.
C2_ProviderFailureAborts ==
    \A j \in DOMAIN calls :
        (calls[j].fn = "get_checks" /\ calls[j].outcome \in CheckFailures)
            => (result = "Err" /\ Len(status.branches) < calls[j].idx)

\* C3: once the CI has settled (every later snapshot has nothing running or queued),
\* the watch loop is eventually left, through AllComplete or UserQuit, unless a
\* composition fails; whatever keys the user presses.
C3_TerminatesWhenComplete ==
    settled ~> (exit \in {"AllComplete", "UserQuit"} \/ result = "Err")

C3_Witness ==
    /\ pc = "returned"
    /\ exit = "AllComplete"
    /\ settled
    /\ keybuf = Some("r")
    /\ \E i \in DOMAIN status.branches : status.branches[i].summary # None

\* C4: all_complete, as the watch loop acts on it, is true exactly when every branch
\* is trunk, or has no summary, or has a summary with running = 0 and queued = 0.
C4_AllCompleteIff ==
    (pc # "complete_check") => ((exit = "AllComplete") <=> SnapshotComplete(status))

C4_Witness ==
    /\ pc = "tick"
    /\ exit = "none"
    /\ Len(status.branches) = 2
    /\ status.branches[1].summary # None
    /\ status.branches[1].summary[1].failed = 1
    /\ status.branches[1].summary[1].running = 0
    /\ status.branches[2].summary # None
    /\ status.branches[2].summary[1].running = 1
    /\ status.branches[2].summary[1].queued = 0

C7_QuitObserved ==
    [][ (pc = "poll" /\ keybuf = Some("q") /\ pc' # "poll")
           => (key' = Some("q") /\ exit' = "UserQuit" /\ pc' = "restore"
               /\ ~screen'.notice) ]_vars

\* C8: a composition that fails in watch mode ends run_watch_mode with the error:
\* the failed cycle has written nothing, the loop is not left through UserQuit or
\* AllComplete, and no step of the loop follows.
C8_FailureTerminatesLoop ==
    (mode = "watch" /\ result = "Err")
        => (pc = "returned" /\ screen = Blank /\ exit = "none")

C8_Witness ==
    /\ mode = "watch"
    /\ result = "Err"
    /\ pc = "returned"
    /\ Len(status.branches) = 1
    /\ \E j \in DOMAIN calls : calls[j].fn = "get_checks" /\ calls[j].outcome = "spawn_err"

\* C9: a trunk branch of a snapshot, composed by fetch_status or fetch_stack_status,
\* has no pr, no checks and no summary, and no collaborator was run for it.
C9_TrunkHasNoData ==
    \A i \in DOMAIN status.branches :
        status.branches[i].is_trunk
            => /\ status.branches[i].pr = None
               /\ status.branches[i].checks = None
               /\ status.branches[i].summary = None
               /\ \A j \in DOMAIN calls : calls[j].idx # i

C9_Witness ==
    /\ mode = "mcp"
    /\ result = "Ok"
    /\ has_gh
    /\ \E i \in DOMAIN status.branches : status.branches[i].is_trunk
    /\ \E i \in DOMAIN status.branches :
         ~status.branches[i].is_trunk /\ status.branches[i].pr # None

\* C10: for a branch that is not trunk, checks and summary are present together,
\* exactly when gh is available and a PR was resolved; get_checks runs only after
\* get_pr_for_branch answered Some for the same branch; an empty check list has the
\* summary total = 0, overall = Unknown.
C10_ChecksIffPr ==
    /\ \A i \in DOMAIN status.branches :
         ~status.branches[i].is_trunk
            => /\ IsSome(status.branches[i].checks)
                    <=> (has_gh /\ IsSome(status.branches[i].pr))
               /\ IsSome(status.branches[i].summary) <=> IsSome(status.branches[i].checks)
               /\ (status.branches[i].checks = Some(<<>>))
                    => /\ status.branches[i].summary[1].total = 0
                       /\ status.branches[i].summary[1].overall = "Unknown"
    /\ \A j \in DOMAIN calls :
         calls[j].fn = "get_checks"
            => /\ j > 1
               /\ calls[j-1] = Call("get_pr_for_branch", calls[j].idx, "some")
    /\ \A j \in DOMAIN calls :
         (calls[j].fn = "get_pr_for_branch" /\ calls[j].outcome = "none"
            /\ calls[j].idx <= Len(status.branches))
            => status.branches[calls[j].idx].checks = None

C10_Witness ==
    /\ result = "Ok"
    /\ mode = "once"
    /\ Len(status.branches) = 3
    /\ status.branches[1].pr = None
    /\ status.branches[2].pr # None
    /\ status.branches[2].checks = Some(<<>>)
    /\ \E j \in DOMAIN calls : calls[j] = Call("get_checks", 2, "ok")

\* the descriptor a BranchStatus carries
DescriptorOf(b) == BranchInfo(b.branch, b.is_current, b.is_trunk)

Descriptors(bs) == [i \in 1..Len(bs) |-> DescriptorOf(bs[i])]

\* the positions at which a composition has returned its snapshot to the caller
ComposedPcs == {"print", "reply", "render", "poll", "complete_check", "restore"}

\* C11: a composition starts from no branch and the whole topology to do; each
\* iteration moves the first descriptor still to do to the end of the branches,
\* name, is_current and is_trunk unchanged; the snapshot is returned only when no
\* descriptor is left to do, and nothing changes its branches afterwards. So the
\* snapshot has one BranchStatus per descriptor of the topology, in its order.
C11_OnePerDescriptor ==
    [][ /\ (pc = "fetch" /\ pc' = "branch") => status'.branches = <<>>
        /\ (pc = "branch" /\ pc' = "branch")
              => Descriptors(status'.branches) \o todo' = Descriptors(status.branches) \o todo
        /\ (pc = "branch" /\ pc' \in ComposedPcs)
              => todo = <<>> /\ status'.branches = status.branches
        /\ pc \in ComposedPcs => status'.branches = status.branches ]_vars

C11_Witness ==
    /\ mode = "once"
    /\ result = "Ok"
    /\ Descriptors(status.branches)
         = << BranchInfo(<<"g">>, FALSE, FALSE), BranchInfo(<<"f">>, TRUE, FALSE),
              BranchInfo(<<"m","a","i","n">>, FALSE, TRUE) >>

\* C12: with gt available and a listing that parses to no branch, the composition
\* uses the single descriptor of the current branch; a composed snapshot never has
\* an empty branches list, and the watch loop never reports all-complete for one.
C12_NeverEmptySnapshot ==
    /\ (pc \in ComposedPcs \/ result = "Ok") => status.branches # <<>>
    /\ exit = "AllComplete" => screen.snap.branches # <<>>

\* summarize_checks has returned
Summarized == pc = "summarize_checks" /\ IsSome(ret)

\* the list summarized has a check with status s
HasCheck(s) == \E i \in DOMAIN arg : arg[i].status = s

\* the number of checks with status s in the list summarized
NumChecks(s) == Cardinality({ i \in DOMAIN arg : arg[i].status = s })

\* C13: the overall status of summarize_checks is Failed if a check is Failed;
\* otherwise Running if a check is Running or Queued; otherwise Passed if a check
\* is Passed; otherwise Unknown; it is never Queued, Skipped or Cancelled.
C13_OverallPrecedence ==
    Summarized
      => /\ Unwrap(ret).overall
              = IF HasCheck("Failed") THEN "Failed"
                ELSE IF HasCheck("Running") \/ HasCheck("Queued") THEN "Running"
                ELSE IF HasCheck("Passed") THEN "Passed"
                ELSE "Unknown"
         /\ Unwrap(ret).overall \notin {"Queued", "Skipped", "Cancelled"}

C13_Witness ==
    /\ Summarized
    /\ HasCheck("Passed")
    /\ HasCheck("Queued")
    /\ ~HasCheck("Failed")
    /\ ~HasCheck("Running")
    /\ Unwrap(ret).overall = "Running"

\* C14: summarize_checks returns total equal to the length of the list, each of
\* passed, failed, running, queued, skipped and cancelled equal to the number of
\* checks with that status, and these six with the number of Unknown checks sum
\* to total.
C14_CountsPartitionTotal ==
    Summarized
      => LET s == Unwrap(ret)
         IN  /\ s.total = Len(arg)
             /\ s.passed = NumChecks("Passed")
             /\ s.failed = NumChecks("Failed")
             /\ s.running = NumChecks("Running")
             /\ s.queued = NumChecks("Queued")
             /\ s.skipped = NumChecks("Skipped")
             /\ s.cancelled = NumChecks("Cancelled")
             /\ s.passed + s.failed + s.running + s.queued + s.skipped + s.cancelled
                  + NumChecks("Unknown") = s.total

C14_Witness ==
    /\ Summarized
    /\ Len(arg) = 3
    /\ arg[1].status = "Failed"
    /\ arg[2].status = "Passed"
    /\ arg[3].status = "Passed"
    /\ Unwrap(ret).total = 3
    /\ Unwrap(ret).passed = 2
    /\ Unwrap(ret).failed = 1
    /\ Unwrap(ret).overall = "Failed"

\* parse_gt_log_short has returned
Parsed == pc = "parse_gt_log_short" /\ IsSome(ret)

Glyphs == {CUR, OTH}

\* a character a branch name is made of
IsNameChar(c) == c \notin tree_chars \cup Glyphs

\* a branch line: connectors, one glyph, connectors, a name, whitespace
IsBranchLine(line) ==
    \E p \in DOMAIN line, n \in DOMAIN line, e \in DOMAIN line :
        /\ p < n
        /\ n <= e
        /\ line[p] \in Glyphs
        /\ \A i \in 1..(p - 1) : line[i] \in tree_chars
        /\ \A i \in (p + 1)..(n - 1) : line[i] \in tree_chars
        /\ \A i \in n..e : IsNameChar(line[i])
        /\ \A i \in (e + 1)..Len(line) : line[i] \in Whitespace

\* a connector-only or blank line
IsConnectorLine(line) == \A i \in DOMAIN line : line[i] \in tree_chars

\* the descriptor a branch line stands for
LineDescriptor(line) ==
    LET name == SelectSeq(line, IsNameChar)
    IN  BranchInfo(name, Contains(line, CUR),
                   name \in { <<"m","a","i","n">>, <<"m","a","s","t","e","r">>,
                              <<"d","e","v","e","l","o","p">>, <<"t","r","u","n","k">> })

\* the descriptors of the branch lines of a listing, in line order
RECURSIVE BranchLineDescriptors(_)
BranchLineDescriptors(listing) ==
    IF listing = <<>> THEN <<>>
    ELSE (IF IsBranchLine(Head(listing)) THEN << LineDescriptor(Head(listing)) >> ELSE <<>>)
         \o BranchLineDescriptors(Tail(listing))

LeftmostGlyph(line) ==
    CHOOSE p \in DOMAIN line :
        line[p] \in Glyphs /\ \A i \in 1..(p - 1) : line[i] \notin Glyphs

\* C18: the descriptor of a line with glyphs is taken at the leftmost glyph of
\* either kind: is_current exactly when that glyph is the current one, the name the
\* stripped text that follows it; a current glyph further right changes neither.
C18_LeftmostGlyphDecides ==
    (Parsed /\ Len(arg) = 1 /\ Unwrap(ret) # <<>>)
      => LET line == arg[1]
             p    == LeftmostGlyph(line)
         IN  /\ Unwrap(ret)[1].is_current = (line[p] = CUR)
             /\ Unwrap(ret)[1].name
                  = Trim(TrimStartMatches(SubSeq(line, p + 1, Len(line)), tree_chars))

\* C16: the steps of the watch loop follow one another in one order. A composition
\* starts only from a completed tick, and the tick is waited for only at the start
\* and after the poll of the previous cycle (or its all-complete test); a
\* composition that succeeds is followed by one render of its snapshot, on a
\* screen nothing was written to in this cycle; a render is followed by one poll,
\* and a poll happens only after a render.
C16_SingleFlight ==
    [][ /\ (pc' = "fetch" /\ pc # "fetch") => pc = "tick"
        /\ (pc' = "tick" /\ pc # "tick") => pc \in {"setup", "poll", "complete_check"}
        /\ (pc = "fetch" /\ pc' # "fetch") => pc' \in {"branch", "returned"}
        /\ (pc = "branch" /\ pc' # "branch") => pc' \in {"render", "returned"}
        /\ (pc' = "render" /\ pc # "render") => (pc = "branch" /\ screen = Blank)
        /\ (pc = "render" /\ pc' # "render")
              => (pc' = "poll" /\ screen'.cleared /\ screen'.snap = status)
        /\ (pc' = "poll" /\ pc # "poll") => pc = "render"
        /\ (pc = "poll" /\ pc' # "poll") => pc' \in {"restore", "tick", "complete_check"}
        /\ (pc = "complete_check" /\ pc' # "complete_check") => pc' \in {"restore", "tick"}
        /\ (pc \in {"poll", "complete_check"} /\ pc' = pc)
              => (screen' = screen /\ status' = status) ]_vars

C16_Witness ==
    /\ pc = "poll"
    /\ key = Some("d")
    /\ screen.cleared
    /\ screen.snap = status
    /\ Len(status.branches) = 3
    /\ IsSome(status.branches[2].pr)

\* C17: in fetch_status and in fetch_stack_status the timestamp of the snapshot is
\* not assigned while the branches are processed, and the returned snapshot carries
\* the moment the composition finished, after the last lookup.
C17_TimestampAfterBranches ==
    /\ pc = "branch" => status.timestamp = None
    /\ pc \in ComposedPcs => status.timestamp = Some(Moment(calls))

====
